---------------------------- MODULE Spec2Model ----------------------------
(***************************************************************************)
(* QRify: styled QR rasterization (utils/qrStyler.ts), the popup's render  *)
(* and export (entrypoints/popup/App.tsx) and the QR window's render       *)
(* (entrypoints/qr-window/QRWindow.tsx).                                   *)
(*                                                                         *)
(* Pure functions are applied by a small harness: `call` holds the name    *)
(* and the arguments of the function being applied, `result` what it       *)
(* returned (or Pending).  The popup, the sidebar and the QR window are    *)
(* state machines of their own, one specification each; the popup and the  *)
(* sidebar name their state alike, and a specification's variables hold    *)
(* the state of the view it runs.                                          *)
(*                                                                         *)
(* Lengths that can be half a pixel in the code (radius = width / 2) are   *)
(* kept doubled, in names ending in 2, so that all arithmetic is integer.  *)
(***************************************************************************)
EXTENDS Integers, Sequences, FiniteSets, TLC

VARIABLES
    call,          \* pure-function harness: the function applied and its arguments
    result,        \* pure-function harness: its result, or Pending
    currentUrl,    \* popup: useState currentUrl
    qrOptions,     \* popup, sidebar: useState qrOptions
    qrError,       \* popup, sidebar: useState qrError (Null or the banner's message)
    effectPending, \* popup: a dependency of the render effect changed since it last ran
    canvas,        \* popup: what the canvas element shows
    renderLog,     \* popup: the generateQRCode calls so far, each with its Image's fate
    lastExport,    \* popup: what the last downloadQR read off the canvas
    storage,       \* chrome.storage.local
    writes,        \* chrome.storage.local.set calls not yet completed
    loading,       \* popup, sidebar: the requests not yet answered;
                   \* QR window: useState loading
    search,        \* QR window: the data parameter of window.location.search
    data,          \* QR window: useState data
    error,         \* QR window: useState error (Null or the message)
    copySuccess    \* QR window: useState copySuccess

pureVars == <<call, result>>
popupVars == <<currentUrl, qrOptions, qrError, effectPending, canvas, renderLog,
               lastExport, storage, writes, loading>>
windowVars == <<search, data, error, copySuccess>>
vars == <<call, result, currentUrl, qrOptions, qrError, effectPending, canvas,
          renderLog, lastExport, storage, writes, loading, search, data, error,
          copySuccess>>

Pending == [pending |-> TRUE]
NoCall == [fn |-> "none"]

Min(a, b) == IF a < b THEN a ELSE b
Max(a, b) == IF a < b THEN b ELSE a

(***************************************************************************)
(* Settings and their storage (utils/storageManager.ts).                   *)
(***************************************************************************)
Null == "null"
NoIcon == "undefined"
STORAGE_KEY == "qr_settings"
DefaultSize == 280
DefaultMargin == 4
DefaultIconBorderRadius == 8

DEFAULT_SETTINGS ==
    [size |-> DefaultSize, dotsColor |-> "#000000", backgroundColor |-> "#ffffff",
     errorCorrectionLevel |-> "H", margin |-> DefaultMargin, centerIcon |-> NoIcon,
     cornerRadius |-> 0, dotType |-> "square", glowEffect |-> FALSE,
     iconBackgroundType |-> "colored", iconBackgroundColor |-> "#ffffff",
     iconBorderRadius |-> DefaultIconBorderRadius]

\* { ...a, ...b }
Spread(a, b) ==
    [k \in DOMAIN a \cup DOMAIN b |-> IF k \in DOMAIN b THEN b[k] ELSE a[k]]

EmptyStorage == [k \in {} |-> DEFAULT_SETTINGS]

GetQRSettings_noDefaults(store) ==
    IF STORAGE_KEY \in DOMAIN store THEN store[STORAGE_KEY] ELSE DEFAULT_SETTINGS

\* What getQRSettings resolves to when the read succeeds.
GetQRSettings(store) ==
    IF STORAGE_KEY \in DOMAIN store
    THEN Spread(DEFAULT_SETTINGS, store[STORAGE_KEY])
    ELSE DEFAULT_SETTINGS

\* What chrome.storage keeps of a settings object: its JSON form, which has no
\* field for a property that is undefined (only centerIcon can be).
Serialize(settings) ==
    IF "centerIcon" \in DOMAIN settings /\ settings.centerIcon = NoIcon
    THEN [k \in DOMAIN settings \ {"centerIcon"} |-> settings[k]]
    ELSE settings

\* chrome.storage.local.set({ [STORAGE_KEY]: settings }), completed.
SetQRSettings(store, settings) ==
    [k \in DOMAIN store \cup {STORAGE_KEY} |->
        IF k = STORAGE_KEY THEN Serialize(settings) ELSE store[k]]

\* resetQRSettings (storageManager.ts 73-83), completed.
ResetQRSettings(store) == SetQRSettings(store, DEFAULT_SETTINGS)

(***************************************************************************)
(* The popup's state before anything has happened (App.tsx 12-29): the     *)
(* initial useState values and a canvas element of the default size.       *)
(***************************************************************************)
NewCanvas == [width |-> 300, height |-> 150, modules |-> 0, overlays |-> <<>>]
NoExport == [format |-> "none"]

\* The QR window's state before its effects have run (QRWindow.tsx 27-35).
NoSearch == [kind |-> "missing"]
WindowMounted ==
    /\ data = [type |-> "link", content |-> "", url |-> ""]
    /\ error = Null
    /\ copySuccess = FALSE
WindowIdle == search = NoSearch /\ WindowMounted

PopupMounted ==
    /\ currentUrl = ""
    /\ qrOptions = DEFAULT_SETTINGS
    /\ qrError = Null
    /\ effectPending = FALSE
    /\ canvas = NewCanvas
    /\ renderLog = <<>>
    /\ lastExport = NoExport
    /\ writes = <<>>

\* With the pure functions applied alone, the popup is not running.
PopupIdle == PopupMounted /\ storage = EmptyStorage /\ loading = {} /\ WindowIdle

(***************************************************************************)
(* Colours are the CSS colour strings the code assigns to fillStyle.  A    *)
(* pixel of the surface is the sequence of the paints that show in it,     *)
(* bottom first: <<c>> after an opaque paint c that covers the pixel, and  *)
(* one more entry for every later paint that covers it only in part (the   *)
(* anti-aliased rim of a path) or is translucent.                          *)
(***************************************************************************)
Black == "#000000"
White == "#ffffff"

Solid(colour) == <<colour>>
Over(pixel, colour) == Append(pixel, colour)

(***************************************************************************)
(* The raster surface: a canvas of width x height pixels.                  *)
(***************************************************************************)
Pixels(width, height) == (0..(width - 1)) \X (0..(height - 1))

BlankSurface(width, height, colour) ==
    [width |-> width, height |-> height,
     px |-> [p \in Pixels(width, height) |-> Solid(colour)]]

\* The pixels of the surface in columns [x0, x1) and rows [y0, y1).
Box(s, x0, x1, y0, y1) ==
    ((Max(x0, 0))..(Min(x1, s.width) - 1)) \X ((Max(y0, 0))..(Min(y1, s.height) - 1))

\* ctx.fillRect(x, y, w, h) with ctx.fillStyle = colour.  The canvas paints the
\* rectangle with corners (x, y) and (x + w, y + h): nothing when w or h is 0, the
\* rectangle extending left/up when w or h is negative; pixels off the surface clip.
FillRect(s, x, y, w, h, colour) ==
    [s EXCEPT !.px =
        [p \in Box(s, Min(x, x + w), Max(x, x + w), Min(y, y + h), Max(y, y + h))
            |-> Solid(colour)] @@ @]

(***************************************************************************)
(* roundRect (qrStyler.ts 100-118).  radius2 is twice the radius.  The     *)
(* path is the rounded rectangle with the clamped radius; arcTo throws     *)
(* IndexSizeError when its radius is negative.                             *)
(***************************************************************************)
RoundRect_noHeightClamp(x, y, width, height, radius2) ==
    LET r1 == IF width < radius2 THEN width ELSE radius2
    IN  [x |-> x, y |-> y, width |-> width, height |-> height,
         radius2 |-> r1, threw |-> r1 < 0]

RoundRect(x, y, width, height, radius2) ==
    LET r1 == IF width < radius2 THEN width ELSE radius2
        r2 == IF height < r1 THEN height ELSE r1
    IN  [x |-> x, y |-> y, width |-> width, height |-> height,
         radius2 |-> r2, threw |-> r2 < 0]

\* Whether the point at doubled distances (U, V) from the nearest two sides of the
\* path's rectangle lies in the rounded rectangle of doubled radius R.
PointInRounded(U, V, R) ==
    U >= R \/ V >= R \/ (R - U) * (R - U) + (R - V) * (R - V) <= R * R

\* How much of pixel p the path covers: "full", "partial" or "none".
Coverage(path, p) ==
    LET i == p[1] - path.x
        j == p[2] - path.y
        w == path.width
        h == path.height
        R == path.radius2
        U0 == Min(2 * i, 2 * (w - i))
        U1 == Min(2 * (i + 1), 2 * (w - i - 1))
        V0 == Min(2 * j, 2 * (h - j))
        V1 == Min(2 * (j + 1), 2 * (h - j - 1))
        NU == Min(2 * (Min(i, w - 1 - i) + 1), R)
        NV == Min(2 * (Min(j, h - 1 - j) + 1), R)
    IN  IF ~(0 <= i /\ i < w /\ 0 <= j /\ j < h) THEN "none"
        ELSE IF PointInRounded(U0, V0, R) /\ PointInRounded(U0, V1, R)
                /\ PointInRounded(U1, V0, R) /\ PointInRounded(U1, V1, R)
             THEN "full"
        ELSE IF (R - NU) * (R - NU) + (R - NV) * (R - NV) < R * R THEN "partial"
        ELSE "none"

\* ctx.fill() of a roundRect path with ctx.fillStyle = colour: a pixel the path
\* covers takes the colour, a pixel it covers in part is painted over in part.
FillPath(s, path, colour) ==
    [s EXCEPT !.px =
        [p \in { q \in Box(s, path.x, path.x + path.width, path.y, path.y + path.height) :
                   Coverage(path, q) # "none" }
            |-> IF Coverage(path, p) = "full" THEN Solid(colour)
                ELSE Over(s.px[p], colour)] @@ @]

(***************************************************************************)
(* drawStyledQRCode (qrStyler.ts 123-150).  ctx is [surface, threw]; a is  *)
(* the record of the call's arguments; qrIsDark is the set of the dark     *)
(* (row, col).                                                             *)
(***************************************************************************)
CellX_nextColumn(offset, col, cellSize) == offset + (col + 1) * cellSize

CellX(offset, col, cellSize) == offset + col * cellSize

CellY_usesCol(offset, row, col, cellSize) == offset + col * cellSize

CellY(offset, row, col, cellSize) == offset + row * cellSize

DrawCell_minRadius(ctx, a, row, col) ==
    LET x == CellX(a.offset, col, a.cellSize)
        y == CellY(a.offset, row, col, a.cellSize)
        path == RoundRect(x, y, a.cellSize, a.cellSize, 2 * Max(a.cornerRadius, 1))
    IN  IF a.dotType = "rounded"
        THEN IF path.threw THEN [ctx EXCEPT !.threw = TRUE]
             ELSE [ctx EXCEPT !.surface = FillPath(@, path, a.dotsColor)]
        ELSE [ctx EXCEPT !.surface =
                 FillRect(@, x, y, a.cellSize, a.cellSize, a.dotsColor)]

DrawCell(ctx, a, row, col) ==
    LET x == CellX(a.offset, col, a.cellSize)
        y == CellY(a.offset, row, col, a.cellSize)
        path == RoundRect(x, y, a.cellSize, a.cellSize, 2 * a.cornerRadius)
    IN  IF a.dotType = "rounded" /\ a.cornerRadius > 0
        THEN IF path.threw THEN [ctx EXCEPT !.threw = TRUE]
             ELSE [ctx EXCEPT !.surface = FillPath(@, path, a.dotsColor)]
        ELSE [ctx EXCEPT !.surface =
                 FillRect(@, x, y, a.cellSize, a.cellSize, a.dotsColor)]

\* The two nested loops, row-major from cell k on; an exception ends them.
RECURSIVE DrawCells(_, _, _)
DrawCells(ctx, a, k) ==
    IF a.qrModuleCount <= 0 \/ k >= a.qrModuleCount * a.qrModuleCount \/ ctx.threw
    THEN ctx
    ELSE LET row == k \div a.qrModuleCount
             col == k % a.qrModuleCount
         IN  DrawCells(IF <<row, col>> \in a.qrIsDark
                       THEN DrawCell(ctx, a, row, col) ELSE ctx, a, k + 1)

DrawStyledQRCode(surface, a) == DrawCells([surface |-> surface, threw |-> FALSE], a, 0)


(***************************************************************************)
(* The rasterizer applied to bounded inputs.                               *)
(***************************************************************************)
MaxModules == 2
MaxCell == 2
MaxOffset == 1
MaxNeg == 1
MaxCornerRadius == 1
MaxRadiusSetting == 50

CanvasW == MaxOffset + MaxModules * MaxCell + 1

Grid(n) == (0..(n - 1)) \X (0..(n - 1))

\* The isDark oracles over an n x n grid; with no grid to walk, an oracle that says
\* "light" and one that says "dark".
Oracles(n) == IF n >= 1 THEN SUBSET Grid(n) ELSE {{}, {<<0, 0>>}}

\* dotType and cornerRadius: both styles at the radius 0, at the small radii and at
\* the largest radius the settings allow.
Styles ==
    ({"square"} \X {0, MaxRadiusSetting})
    \cup ({"rounded"} \X ((0..MaxCornerRadius) \cup {MaxRadiusSetting}))

\* The surface the rasterizer is handed: the background, filled.
RasterSurface == BlankSurface(CanvasW, CanvasW, White)

RasterCalls ==
    UNION { { [fn |-> "drawStyledQRCode",
               qrModuleCount |-> n, qrIsDark |-> d, cellSize |-> c, offset |-> o,
               dotsColor |-> Black, dotType |-> t[1], cornerRadius |-> t[2]] :
              d \in Oracles(n), c \in (0 - MaxNeg)..MaxCell, o \in {0, MaxOffset},
              t \in Styles } :
            n \in (0 - MaxNeg)..MaxModules }

Done == "pending" \notin DOMAIN result

RasterInit == call \in RasterCalls /\ result = Pending /\ PopupIdle

ApplyDrawStyledQRCode ==
    /\ call.fn = "drawStyledQRCode"
    /\ result = Pending
    /\ result' = DrawStyledQRCode(RasterSurface, call)
    /\ UNCHANGED <<call, popupVars, windowVars>>

RasterNext == ApplyDrawStyledQRCode

SpecRaster == RasterInit /\ [][RasterNext]_vars

Drawn == call.fn = "drawStyledQRCode" /\ Done

\* The pixels a finished draw changed.
Painted == { p \in DOMAIN RasterSurface.px : result.surface.px[p] # RasterSurface.px[p] }

\* Pixel p lies in the cell of module (row, col).
InCell(p, a, row, col) ==
    /\ a.offset + col * a.cellSize <= p[1]
    /\ p[1] < a.offset + (col + 1) * a.cellSize
    /\ a.offset + row * a.cellSize <= p[2]
    /\ p[2] < a.offset + (row + 1) * a.cellSize

\* C4: in square style, with moduleCount >= 1, cellSize >= 1 and offset >= 0, a pixel
\* is painted in dotsColor exactly when it lies in the cell of a dark module of the
\* grid, and every other pixel keeps its colour.
C4_SquarePixelExact ==
    (Drawn /\ call.dotType = "square" /\ call.qrModuleCount >= 1 /\ call.cellSize >= 1)
    => /\ ~result.threw
       /\ \A p \in DOMAIN RasterSurface.px :
            result.surface.px[p] =
              IF \E m \in call.qrIsDark \cap Grid(call.qrModuleCount) :
                    InCell(p, call, m[1], m[2])
              THEN Solid(call.dotsColor) ELSE RasterSurface.px[p]

C4_Witness ==
    /\ Drawn /\ call.dotType = "square"
    /\ call.qrModuleCount = 2 /\ call.cellSize = 2 /\ call.offset = 1
    /\ call.qrIsDark = {<<0, 1>>, <<1, 0>>}
    /\ result.surface.px[<<3, 1>>] = Solid(Black)
    /\ result.surface.px[<<1, 1>>] = Solid(White)
    /\ result.surface.px[<<1, 3>>] = Solid(Black)

\* C6: with moduleCount >= 1 and cellSize >= 1, in square and in rounded style, the
\* painted area is at most (moduleCount * cellSize)^2 pixels and every painted pixel
\* lies in [offset, offset + moduleCount * cellSize) on both axes.
C6_PaintedWithinGrid ==
    (Drawn /\ call.qrModuleCount >= 1 /\ call.cellSize >= 1)
    => /\ Cardinality(Painted)
            <= (call.qrModuleCount * call.cellSize) * (call.qrModuleCount * call.cellSize)
       /\ \A p \in Painted : \A i \in 1..2 :
            /\ call.offset <= p[i]
            /\ p[i] < call.offset + call.qrModuleCount * call.cellSize

C6_Witness ==
    /\ Drawn /\ call.dotType = "rounded" /\ call.cornerRadius = MaxRadiusSetting
    /\ call.qrModuleCount = 2 /\ call.cellSize = 2
    /\ call.qrIsDark = Grid(2)
    /\ Cardinality(Painted) = 16

\* C9: a rounded-style render with cornerRadius = 0 leaves exactly the pixels of the
\* square-style render of the same grid, cell size, offset and colour.
C9_RoundedZeroIsSquare ==
    (Drawn /\ call.dotType = "rounded" /\ call.cornerRadius = 0)
    => result = DrawStyledQRCode(RasterSurface, [call EXCEPT !.dotType = "square"])

C9_Witness ==
    /\ Drawn /\ call.dotType = "rounded" /\ call.cornerRadius = 0
    /\ call.qrModuleCount = 2 /\ call.cellSize = 2
    /\ Cardinality(Painted) = 8

\* C10: drawStyledQRCode with a zero or negative moduleCount or a zero or negative
\* cellSize, in either style with any cornerRadius, paints no pixel and does not throw.
C10_DegenerateIsNoOp ==
    (Drawn /\ (call.qrModuleCount <= 0 \/ call.cellSize <= 0))
    => result.surface = RasterSurface /\ ~result.threw

(***************************************************************************)
(* roundRect applied to bounded inputs.                                    *)
(***************************************************************************)
MaxSide == 4
MaxRadius == 3

RoundRectCalls ==
    { [fn |-> "roundRect", x |-> 0, y |-> 0, width |-> w, height |-> h, radius |-> r] :
      w \in ((0 - MaxNeg)..MaxSide) \cup {20}, h \in ((0 - MaxNeg)..MaxSide) \cup {20},
      r \in (0..MaxRadius) \cup {MaxRadiusSetting} }

RoundRectInit == call \in RoundRectCalls /\ result = Pending /\ PopupIdle

ApplyRoundRect ==
    /\ call.fn = "roundRect"
    /\ result = Pending
    /\ result' = RoundRect(call.x, call.y, call.width, call.height, 2 * call.radius)
    /\ UNCHANGED <<call, popupVars, windowVars>>

RoundRectNext == ApplyRoundRect

SpecRoundRect == RoundRectInit /\ [][RoundRectNext]_vars

\* C8: the radius roundRect uses never exceeds half the width nor half the height,
\* whatever the width, the height and the requested radius >= 0; a radius of 50 on a
\* 20 x 20 cell is used as 10.
C8_RadiusClamped ==
    (call.fn = "roundRect" /\ Done)
    => /\ result.radius2 <= call.width
       /\ result.radius2 <= call.height
       /\ (call.width = 20 /\ call.height = 20 /\ call.radius = MaxRadiusSetting)
            => result.radius2 = 2 * 10

C8_Witness ==
    /\ call.fn = "roundRect" /\ Done
    /\ call.width = 20 /\ call.height = 20 /\ call.radius = MaxRadiusSetting
    /\ result.radius2 = 20 /\ ~result.threw

(***************************************************************************)
(* The layout the two renders compute: the popup's generateQRCode          *)
(* (App.tsx 89-92) and the QR window's renderQRCode (QRWindow.tsx          *)
(* 106-109).  Math.floor(a / b) is a \div b.                               *)
(***************************************************************************)
MinSize == 200
MaxSize == 350
MaxMargin == 8
QR_SIZE == 256
MaxTypeNumber == 40

\* qr.getModuleCount() of a QR code of type number 1..MaxTypeNumber.
ModuleCounts == { 17 + 4 * v : v \in 1..MaxTypeNumber }

PopupLayout_offsetIsMargin(size, margin, moduleCount) ==
    LET cellSize == (size - margin * 2) \div moduleCount
        qrSize == cellSize * moduleCount
    IN  [size |-> size, cellSize |-> cellSize, qrSize |-> qrSize, offset |-> margin]

PopupLayout_ignoresMargin(size, margin, moduleCount) ==
    LET cellSize == size \div moduleCount
        qrSize == cellSize * moduleCount
        offset == (size - qrSize) \div 2
    IN  [size |-> size, cellSize |-> cellSize, qrSize |-> qrSize, offset |-> offset]

PopupLayout(size, margin, moduleCount) ==
    LET cellSize == (size - margin * 2) \div moduleCount
        qrSize == cellSize * moduleCount
        offset == (size - qrSize) \div 2
    IN  [size |-> size, cellSize |-> cellSize, qrSize |-> qrSize, offset |-> offset]

WindowLayout(moduleCount) ==
    LET cellSize == QR_SIZE \div moduleCount
        qrSize == cellSize * moduleCount
        margin == (QR_SIZE - qrSize) \div 2
    IN  [size |-> QR_SIZE, cellSize |-> cellSize, qrSize |-> qrSize, offset |-> margin]

LayoutCalls ==
    { [fn |-> "popupLayout", size |-> s, margin |-> m, moduleCount |-> n] :
      s \in MinSize..MaxSize, m \in 0..MaxMargin, n \in ModuleCounts }
    \cup { [fn |-> "windowLayout", moduleCount |-> n] : n \in ModuleCounts }

LayoutInit == call \in LayoutCalls /\ result = Pending /\ PopupIdle

ApplyPopupLayout ==
    /\ call.fn = "popupLayout"
    /\ result = Pending
    /\ result' = PopupLayout(call.size, call.margin, call.moduleCount)
    /\ UNCHANGED <<call, popupVars, windowVars>>

ApplyWindowLayout ==
    /\ call.fn = "windowLayout"
    /\ result = Pending
    /\ result' = WindowLayout(call.moduleCount)
    /\ UNCHANGED <<call, popupVars, windowVars>>

LayoutNext == ApplyPopupLayout \/ ApplyWindowLayout

SpecLayout == LayoutInit /\ [][LayoutNext]_vars

LaidOut == call.fn \in {"popupLayout", "windowLayout"} /\ Done

\* The background left before the first module column/row and after the last one.
GapBefore == result.offset
GapAfter == result.size - result.offset - result.qrSize

\* C7 as stated: cellSize * moduleCount <= canvas size and the gap before the first
\* module column/row equals the gap after the last one.
C7_SymmetricMargin ==
    LaidOut => result.qrSize <= result.size /\ GapBefore = GapAfter

\* C7 as amended: cellSize * moduleCount <= canvas size, the offset is the remainder
\* halved and rounded down, so the gap after the last module equals the gap before
\* the first one when the remainder is even and is one pixel larger when it is odd.
C7_MarginWithinOnePixel ==
    LaidOut
    => /\ result.qrSize = result.cellSize * call.moduleCount
       /\ result.qrSize <= result.size
       /\ GapBefore >= 0
       /\ GapAfter - GapBefore = (result.size - result.qrSize) % 2

C7_Witness ==
    /\ LaidOut /\ call.fn = "windowLayout" /\ call.moduleCount = 33
    /\ result.cellSize = 7 /\ GapBefore = 12 /\ GapAfter = 13

\* C28: for every size the slider gives (200..350), margin (0..8) and module count
\* of a symbol (21..177), the popup computes cellSize >= 1, offset >= margin and
\* size - offset - cellSize * moduleCount >= margin: the quiet zone asked for is
\* kept on both sides.
C28_QuietZoneKept ==
    (LaidOut /\ call.fn = "popupLayout")
    => /\ result.cellSize >= 1
       /\ result.offset >= call.margin
       /\ result.size - result.offset - result.cellSize * call.moduleCount >= call.margin

\* The tightest case: the smallest canvas, the widest margin, the largest symbol.
C28_Witness ==
    /\ LaidOut /\ call.fn = "popupLayout"
    /\ call.size = MinSize /\ call.margin = MaxMargin /\ call.moduleCount = 177
    /\ result.cellSize = 1 /\ result.offset = 11 /\ GapAfter = 12

(***************************************************************************)
(* The per-pixel SVG encoders: the popup's canvasToSVG (App.tsx 169-195)   *)
(* and canvasToAdvancedSVG (qrStyler.ts 185-238).  An ImageData is         *)
(* [width, height, data], data the RGBA bytes in row-major order from      *)
(* index 0.  The markup is the sequence of its elements.                   *)
(***************************************************************************)
PixelIndex_transposed(width, x, y) == (x * width + y) * 4

PixelIndex(width, x, y) == (y * width + x) * 4

IsDarkPixel_alphaInclusive(bytes, index) ==
    LET r == bytes[index]
        g == bytes[index + 1]
        b == bytes[index + 2]
        a == bytes[index + 3]
    IN  a >= 128 /\ r < 128 /\ g < 128 /\ b < 128

IsDarkPixel(bytes, index) ==
    LET r == bytes[index]
        g == bytes[index + 1]
        b == bytes[index + 2]
        a == bytes[index + 3]
    IN  a > 128 /\ r < 128 /\ g < 128 /\ b < 128

\* The two nested loops (y outer, x inner) from pixel number k on: the (x, y) of the
\* pixels that pass the test, in the order the loops meet them.
RECURSIVE DarkScan(_, _)
DarkScan(img, k) ==
    IF k >= img.width * img.height THEN <<>>
    ELSE LET y == k \div img.width
             x == k % img.width
         IN  (IF IsDarkPixel(img.data, PixelIndex(img.width, x, y))
              THEN <<(<<x, y>>)>> ELSE <<>>) \o DarkScan(img, k + 1)

SvgOpen(width, height) == [el |-> "svg", width |-> width, height |-> height]
SvgClose == [el |-> "/svg"]
SvgBackground(width, height, fill) ==
    [el |-> "rect", width |-> width, height |-> height, fill |-> fill]
SvgDot(p, fill) ==
    [el |-> "rect", x |-> p[1], y |-> p[2], width |-> 1, height |-> 1, fill |-> fill]
\* rx and ry are cornerRadius / 10, kept as their tenfold.
SvgRoundedDot(p, fill, cornerRadius) ==
    [el |-> "rect", x |-> p[1], y |-> p[2], width |-> 1, height |-> 1,
     rx10 |-> cornerRadius, ry10 |-> cornerRadius, fill |-> fill]

CanvasToSVG(img, backgroundColor, dotsColor) ==
    LET dark == DarkScan(img, 0)
    IN  <<SvgOpen(img.width, img.height),
          SvgBackground(img.width, img.height, backgroundColor)>>
        \o [i \in 1..Len(dark) |-> SvgDot(dark[i], dotsColor)]
        \o <<SvgClose>>

CanvasToAdvancedSVG(img, backgroundColor, dotsColor, dotType, cornerRadius) ==
    LET dark == DarkScan(img, 0)
    IN  <<SvgOpen(img.width, img.height),
          SvgBackground(img.width, img.height, backgroundColor)>>
        \o (IF dotType = "rounded" /\ cornerRadius > 0
            THEN [i \in 1..Len(dark) |-> SvgRoundedDot(dark[i], dotsColor, cornerRadius)]
            ELSE [i \in 1..Len(dark) |-> SvgDot(dark[i], dotsColor)])
        \o <<SvgClose>>

\* ctx.getImageData(0, 0, width, height) of a surface whose pixel p holds rgba[p].
ImageData(width, height, rgba) ==
    [width |-> width, height |-> height,
     data |-> [i \in 0..(width * height * 4 - 1) |->
                 rgba[<<(i \div 4) % width, (i \div 4) \div width>>][(i % 4) + 1]]]

(***************************************************************************)
(* The encoders applied to bounded surfaces: white, with at most MaxInk    *)
(* pixels of other values, each on one side of one threshold of the test.  *)
(***************************************************************************)
SvgW == 2
SvgH == 2
MaxInk == 2

WhitePixel == <<255, 255, 255, 255>>
InkPixels ==
    { <<127, 127, 127, 129>>, <<128, 127, 127, 129>>, <<127, 128, 127, 129>>,
      <<127, 127, 128, 129>>, <<127, 127, 127, 128>> }

InkedSurfaces ==
    UNION { { [p \in Pixels(SvgW, SvgH) |-> IF p \in S THEN f[p] ELSE WhitePixel] :
              f \in [S -> InkPixels] } :
            S \in { T \in SUBSET Pixels(SvgW, SvgH) : Cardinality(T) <= MaxInk } }

SvgCalls ==
    { [fn |-> v[1], img |-> ImageData(SvgW, SvgH, rgba),
       backgroundColor |-> White, dotsColor |-> Black,
       dotType |-> v[2], cornerRadius |-> v[3]] :
      rgba \in InkedSurfaces,
      v \in { <<"canvasToSVG", "square", 0>>, <<"canvasToAdvancedSVG", "square", 0>>,
              <<"canvasToAdvancedSVG", "rounded", MaxRadiusSetting>> } }

SvgInit == call \in SvgCalls /\ result = Pending /\ PopupIdle

ApplyCanvasToSVG ==
    /\ call.fn = "canvasToSVG"
    /\ result = Pending
    /\ result' = [svg |-> CanvasToSVG(call.img, call.backgroundColor, call.dotsColor)]
    /\ UNCHANGED <<call, popupVars, windowVars>>

ApplyCanvasToAdvancedSVG ==
    /\ call.fn = "canvasToAdvancedSVG"
    /\ result = Pending
    /\ result' = [svg |-> CanvasToAdvancedSVG(call.img, call.backgroundColor,
                             call.dotsColor, call.dotType, call.cornerRadius)]
    /\ UNCHANGED <<call, popupVars, windowVars>>

SvgNext == ApplyCanvasToSVG \/ ApplyCanvasToAdvancedSVG

SpecSvg == SvgInit /\ [][SvgNext]_vars

Encoded == call.fn \in {"canvasToSVG", "canvasToAdvancedSVG"} /\ Done

\* Channel c (0 red .. 3 alpha) of the pixel (x, y) of an ImageData.
Channel(img, x, y, c) == img.data[(y * img.width + x) * 4 + c]

\* The pixels with alpha > 128 and red, green and blue all < 128.
DarkPixels(img) ==
    { p \in Pixels(img.width, img.height) :
        /\ Channel(img, p[1], p[2], 3) > 128
        /\ \A c \in 0..2 : Channel(img, p[1], p[2], c) < 128 }

MaxRenders == 2
MaxWrites == 1

IconA == "data:image/png;base64,AAAA"
TabUrl == "https://example.com/"
\* A URL longer than the largest symbol holds: qr.make() throws on it.
LongUrl == "https://example.com/?q=..."
Encodable(url) == url # LongUrl

\* The values the settings controls are given.
SettingChoices ==
    { <<"centerIcon", IconA>>, <<"centerIcon", NoIcon>>,
      <<"iconBackgroundType", "colored">>, <<"iconBackgroundType", "transparent">> }

\* The record stored by an earlier session, if any: here one that holds an icon and
\* lacks the other fields.
EarlierStorage ==
    { EmptyStorage, SetQRSettings(EmptyStorage, [centerIcon |-> IconA]) }

Init ==
    /\ call = NoCall /\ result = Pending
    /\ PopupMounted
    /\ storage \in EarlierStorage
    /\ loading = {"settings", "tab"}
    /\ WindowIdle

\* loadSettings (App.tsx 33-40): getQRSettings resolved.
LoadSettingsResolve ==
    /\ "settings" \in loading
    /\ loading' = loading \ {"settings"}
    /\ qrOptions' = GetQRSettings(storage)
    /\ effectPending' = TRUE
    /\ UNCHANGED <<pureVars, windowVars, currentUrl, qrError, canvas, renderLog, lastExport,
                   storage, writes>>

\* loadSettings: getQRSettings rejected; the error is logged.
LoadSettingsReject ==
    /\ "settings" \in loading
    /\ loading' = loading \ {"settings"}
    /\ UNCHANGED <<pureVars, windowVars, currentUrl, qrOptions, qrError, effectPending, canvas,
                   renderLog, lastExport, storage, writes>>

\* The chrome.tabs.query callback (App.tsx 46-63); url is tabs[0]?.url ?? ''.
TabQueryResult(url) ==
    /\ "tab" \in loading
    /\ loading' = loading \ {"tab"}
    /\ IF url = ""
       THEN /\ qrError' = "No accessible URL for this tab."
            /\ UNCHANGED <<currentUrl, effectPending>>
       ELSE /\ qrError' = Null
            /\ currentUrl' = url
            /\ effectPending' = TRUE
    /\ UNCHANGED <<pureVars, windowVars, qrOptions, canvas, renderLog, lastExport, storage, writes>>

\* The callback with chrome.runtime.lastError set (App.tsx 47-52).
TabQueryError ==
    /\ "tab" \in loading
    /\ loading' = loading \ {"tab"}
    /\ qrError' = "Unable to access the active tab."
    /\ UNCHANGED <<pureVars, windowVars, currentUrl, qrOptions, effectPending, canvas, renderLog,
                   lastExport, storage, writes>>

\* drawCenterIcon (qrStyler.ts 19-95) up to its return: with an icon it creates the
\* Image, sets onload and src, and returns; an async function with no await inside,
\* its promise is resolved when it returns.
DrawCenterIcon(iconBase64) ==
    [image |-> IF iconBase64 = NoIcon THEN "none" ELSE "loading",
     promise |-> "resolved"]

\* generateQRCode (App.tsx 76-142).  Encoding succeeds: the banner is cleared, the
\* canvas resized (which clears it), background and modules painted, and
\* drawCenterIcon awaited when an icon is configured.  Encoding throws: the banner
\* is set, the canvas resized and the placeholder text painted.
GenerateQRCode ==
    LET id == Len(renderLog) + 1
        overlay == IF Encodable(currentUrl) /\ qrOptions.centerIcon # NoIcon
                   THEN DrawCenterIcon(qrOptions.centerIcon)
                   ELSE [image |-> "none", promise |-> "none"]
    IN  /\ qrError' = IF Encodable(currentUrl) THEN Null
                      ELSE "Unable to generate a QR code for this page."
        /\ canvas' = [width |-> qrOptions.size, height |-> qrOptions.size,
                      modules |-> id, overlays |-> <<>>]
        /\ renderLog' = Append(renderLog,
                               [url |-> currentUrl, options |-> qrOptions,
                                encoded |-> Encodable(currentUrl),
                                image |-> overlay.image, promise |-> overlay.promise])

\* The effect on [currentUrl, qrOptions] (App.tsx 71-74).
RenderEffect ==
    /\ effectPending
    /\ currentUrl = "" \/ Len(renderLog) < MaxRenders
    /\ effectPending' = FALSE
    /\ IF currentUrl = ""
       THEN UNCHANGED <<qrError, canvas, renderLog>>
       ELSE GenerateQRCode
    /\ UNCHANGED <<pureVars, windowVars, currentUrl, qrOptions, lastExport, storage,
                   writes, loading>>

\* img.onload of the Image render id created (qrStyler.ts 40-90): the plate or the
\* outline, then the icon, painted on the canvas as it is now, with the options the
\* call captured.
ImageOnload(id) ==
    /\ renderLog[id].image = "loading"
    /\ renderLog' = [renderLog EXCEPT ![id].image = "painted"]
    /\ canvas' = [canvas EXCEPT !.overlays =
                    Append(@, [render |-> id,
                               icon |-> renderLog[id].options.centerIcon,
                               backgroundType |-> renderLog[id].options.iconBackgroundType,
                               backgroundColor |-> renderLog[id].options.iconBackgroundColor,
                               backgroundBorderRadius |->
                                   renderLog[id].options.iconBorderRadius,
                               canvasSize |-> canvas.width])]
    /\ UNCHANGED <<pureVars, windowVars, currentUrl, qrOptions, qrError, effectPending, lastExport,
                   storage, writes, loading>>

\* The Image fails to load: no onerror is set, nothing is painted.
ImageError(id) ==
    /\ renderLog[id].image = "loading"
    /\ renderLog' = [renderLog EXCEPT ![id].image = "failed"]
    /\ UNCHANGED <<pureVars, windowVars, currentUrl, qrOptions, qrError, effectPending, canvas,
                   lastExport, storage, writes, loading>>

\* downloadQR (App.tsx 144-167): toBlob and getImageData both read the canvas as it
\* is when the button is clicked; the buttons are disabled without a URL.
DownloadQR(format) ==
    /\ currentUrl # ""
    /\ lastExport' = [format |-> format, canvas |-> canvas]
    /\ UNCHANGED <<pureVars, windowVars, currentUrl, qrOptions, qrError, effectPending, canvas,
                   renderLog, storage, writes, loading>>

\* updateSetting (App.tsx 253-262) up to its await: the new options are set and the
\* write is issued.  Updates stop once the renders they cause are used up.
UpdateSetting(key, value) ==
    /\ Len(writes) < MaxWrites
    /\ Len(renderLog) + (IF effectPending THEN 1 ELSE 0) < MaxRenders
    /\ LET updated == [qrOptions EXCEPT ![key] = value]
       IN  /\ qrOptions' = updated
           /\ writes' = Append(writes, updated)
    /\ effectPending' = TRUE
    /\ UNCHANGED <<pureVars, windowVars, currentUrl, qrError, canvas, renderLog, lastExport,
                   storage, loading>>

\* saveQRSettings (storageManager.ts 58-68) resolved.
SaveResolve ==
    /\ writes # <<>>
    /\ storage' = SetQRSettings(storage, Head(writes))
    /\ writes' = Tail(writes)
    /\ UNCHANGED <<pureVars, windowVars, currentUrl, qrOptions, qrError, effectPending, canvas,
                   renderLog, lastExport, loading>>

\* saveQRSettings rejected: updateSetting's catch sets the banner.
SaveReject ==
    /\ writes # <<>>
    /\ writes' = Tail(writes)
    /\ qrError' = "Failed to save settings"
    /\ UNCHANGED <<pureVars, windowVars, currentUrl, qrOptions, effectPending, canvas, renderLog,
                   lastExport, storage, loading>>

Next ==
    \/ LoadSettingsResolve
    \/ LoadSettingsReject
    \/ \E url \in {"", TabUrl, LongUrl} : TabQueryResult(url)
    \/ TabQueryError
    \/ RenderEffect
    \/ \E id \in 1..Len(renderLog) : ImageOnload(id)
    \/ \E id \in 1..Len(renderLog) : ImageError(id)
    \/ \E format \in {"png", "svg"} : DownloadQR(format)
    \/ \E c \in SettingChoices : UpdateSetting(c[1], c[2])
    \/ SaveResolve
    \/ SaveReject

Spec == Init /\ [][Next]_vars

\* C1: the promise of a drawCenterIcon call with an icon is resolved only once the
\* image's onload has fired and painted the plate and the icon; it is never resolved
\* while that paint is pending.
C1_ResolvedOnlyAfterPaint ==
    \A id \in 1..Len(renderLog) :
        renderLog[id].promise = "resolved" => renderLog[id].image = "painted"

\* The render that painted the modules the canvas shows.
LatestOptions == renderLog[canvas.modules].options

\* C2: no icon overlay started by an earlier render is painted on the canvas of a
\* later render; once no decode is pending, the canvas shows an icon only if the
\* latest configuration has a centre icon, drawn with the latest background settings.
C2_NoStaleOverlay ==
    /\ \A i \in 1..Len(canvas.overlays) : canvas.overlays[i].render = canvas.modules
    /\ (\A id \in 1..Len(renderLog) : renderLog[id].image # "loading")
       => \A i \in 1..Len(canvas.overlays) :
            /\ LatestOptions.centerIcon # NoIcon
            /\ canvas.overlays[i].icon = LatestOptions.centerIcon
            /\ canvas.overlays[i].backgroundType = LatestOptions.iconBackgroundType

\* C3: every export taken once a render with a centre icon has started reads a
\* canvas on which that render's icon has been painted; none reads the canvas
\* between the module paint and the icon paint.
C3_ExportAfterOverlay ==
    (lastExport.format # "none" /\ lastExport.canvas.modules > 0
        /\ renderLog[lastExport.canvas.modules].encoded
        /\ renderLog[lastExport.canvas.modules].options.centerIcon # NoIcon)
    => \E i \in 1..Len(lastExport.canvas.overlays) :
          lastExport.canvas.overlays[i].render = lastExport.canvas.modules

(***************************************************************************)
(* The icon overlay: the onload handler of drawCenterIcon (qrStyler.ts     *)
(* 40-90).  Lengths are exact, in units of 1/Scale pixel: the icon size is *)
(* canvasSize * size / 100 and the position half of what is left.  The     *)
(* handler's paints are kept as the sequence of drawing operations.        *)
(***************************************************************************)
Scale == 100 * 2

\* The defaults of the destructuring (qrStyler.ts 22-31); an option left undefined
\* is a field the options record does not have.
DrawIconDefaults ==
    [size |-> 25, padding |-> 4, borderRadius |-> 4, backgroundType |-> "colored",
     backgroundColor |-> "#ffffff", backgroundBorderRadius |-> 8]

\* const iconSize = (canvasSize * size) / 100
IconSize(canvasSize, size) == canvasSize * size * (Scale \div 100)

IconX_leftAligned(canvasSize, iconSize) == 0

\* const x = (canvasSize - iconSize) / 2, and y the same
IconX(canvasSize, iconSize) == (canvasSize * Scale - iconSize) \div 2

\* const bgBorderRadius = backgroundBorderRadius || borderRadius: 0 is falsy
BgBorderRadius(backgroundBorderRadius, borderRadius) ==
    IF backgroundBorderRadius = 0 THEN borderRadius ELSE backgroundBorderRadius

BackgroundOps_alwaysFill(backgroundType, plate, backgroundColor) ==
    << [op |-> "fill", path |-> plate, style |-> backgroundColor] >>

\* The branch on backgroundType (qrStyler.ts 48-87): fill and a 1px stroke of the
\* plate, or a 1.5px stroke only, or nothing.  lineWidth is in units of 1/2 pixel.
BackgroundOps(backgroundType, plate, backgroundColor) ==
    IF backgroundType = "colored"
    THEN << [op |-> "fill", path |-> plate, style |-> backgroundColor],
            [op |-> "stroke", path |-> plate, style |-> "rgba(0, 0, 0, 0.1)",
             lineWidth2 |-> 2] >>
    ELSE IF backgroundType = "transparent"
    THEN << [op |-> "stroke", path |-> plate, style |-> "rgba(0, 0, 0, 0.15)",
             lineWidth2 |-> 3] >>
    ELSE << >>

\* img.onload (qrStyler.ts 40-90) on a canvas canvasSize wide, with the options the
\* call was given.  A throw from arcTo ends the handler before anything is painted.
OnloadPaint(options, canvasSize) ==
    LET o == Spread(DrawIconDefaults, options)
        iconSize == IconSize(canvasSize, o.size)
        x == IconX(canvasSize, iconSize)
        y == IconX(canvasSize, iconSize)
        bgBorderRadius == BgBorderRadius(o.backgroundBorderRadius, o.borderRadius)
        plate == RoundRect(x - o.padding * Scale, y - o.padding * Scale,
                           iconSize + o.padding * 2 * Scale,
                           iconSize + o.padding * 2 * Scale,
                           2 * bgBorderRadius * Scale)
        threw == o.backgroundType \in {"colored", "transparent"} /\ plate.threw
    IN  [canvasSize |-> canvasSize * Scale, iconSize |-> iconSize, x |-> x, y |-> y,
         threw |-> threw,
         ops |-> IF threw THEN << >>
                 ELSE BackgroundOps(o.backgroundType, plate, o.backgroundColor)
                      \o << [op |-> "drawImage", x |-> x, y |-> y,
                             width |-> iconSize, height |-> iconSize] >>]

\* The overlay parameters the popup passes (App.tsx 115-124).
PopupIconSize == 25
PopupIconPadding == 4
PopupIconBorderRadius == 4

PopupIconOptions(settings) ==
    [iconBase64 |-> settings.centerIcon, size |-> PopupIconSize,
     padding |-> PopupIconPadding, borderRadius |-> PopupIconBorderRadius,
     backgroundType |-> settings.iconBackgroundType,
     backgroundColor |-> settings.iconBackgroundColor,
     backgroundBorderRadius |-> settings.iconBorderRadius]

MaxSizePct == 100

\* Calls with the popup's parameters over every canvas size and every radius of the
\* slider, and calls with other sizes, paddings and an undefined radius.
IconCalls ==
    { [fn |-> "onload", canvasSize |-> c,
       options |-> PopupIconOptions([DEFAULT_SETTINGS EXCEPT
                       !.centerIcon = "data:image/png;base64,AAAA",
                       !.iconBackgroundType = t, !.iconBorderRadius = r])] :
        c \in MinSize..MaxSize, t \in {"colored", "transparent"},
        r \in 0..MaxRadiusSetting }
    \cup
    { [fn |-> "onload", canvasSize |-> c,
       options |-> [iconBase64 |-> "data:image/png;base64,AAAA", size |-> z,
                    padding |-> p, backgroundType |-> t]] :
        c \in {MinSize, MinSize + 1, MaxSize}, z \in {1, PopupIconSize, MaxSizePct},
        p \in {0, PopupIconPadding}, t \in {"colored", "transparent", "none"} }

IconInit == call \in IconCalls /\ result = Pending /\ PopupIdle

ApplyOnloadPaint ==
    /\ call.fn = "onload"
    /\ result = Pending
    /\ result' = OnloadPaint(call.options, call.canvasSize)
    /\ UNCHANGED <<call, popupVars, windowVars>>

IconNext == ApplyOnloadPaint

SpecIcon == IconInit /\ [][IconNext]_vars

IconPainted == call.fn = "onload" /\ Done

\* Whether the square or plate [x, x + side) on both axes lies within the canvas.
WithinCanvas(x, side) == 0 <= x /\ x + side <= result.canvasSize

\* C11: the gap left of the icon equals the gap right of it and the gap above the
\* gap below, for every size percentage; with the popup's parameters (25 %, padding
\* 4) on every canvas size 200..350 the icon square and the padded plate lie within
\* the canvas.
C11_IconCentredWithinCanvas ==
    IconPainted =>
        /\ result.x = result.canvasSize - result.x - result.iconSize
        /\ result.y = result.canvasSize - result.y - result.iconSize
        /\ ("borderRadius" \in DOMAIN call.options) =>
              /\ WithinCanvas(result.x, result.iconSize)
              /\ WithinCanvas(result.x - PopupIconPadding * Scale,
                              result.iconSize + 2 * PopupIconPadding * Scale)
              /\ \A i \in 1..Len(result.ops) :
                    result.ops[i].op # "drawImage" =>
                        /\ WithinCanvas(result.ops[i].path.x, result.ops[i].path.width)
                        /\ WithinCanvas(result.ops[i].path.y, result.ops[i].path.height)

C11_Witness ==
    /\ IconPainted
    /\ call.canvasSize = MinSize
    /\ "borderRadius" \in DOMAIN call.options
    /\ result.iconSize = 50 * Scale
    /\ result.x = 75 * Scale
    /\ Len(result.ops) = 3

\* C12: with backgroundType colored the plate is the icon square extended by the
\* padding on every side, and for every supplied backgroundBorderRadius in 0..50 its
\* corner radius is that value, clamped to half the plate's side.
C12_PlateRadiusIsSupplied ==
    (IconPainted /\ "backgroundBorderRadius" \in DOMAIN call.options
        /\ call.options.backgroundType = "colored")
    => /\ result.ops[1].op = "fill"
       /\ result.ops[1].path.x = result.x - call.options.padding * Scale
       /\ result.ops[1].path.y = result.y - call.options.padding * Scale
       /\ result.ops[1].path.width = result.iconSize + 2 * call.options.padding * Scale
       /\ result.ops[1].path.height = result.iconSize + 2 * call.options.padding * Scale
       /\ result.ops[1].path.radius2 =
             Min(2 * call.options.backgroundBorderRadius * Scale,
                 result.ops[1].path.width)

\* C13: with backgroundType transparent nothing is filled: outside the icon's square
\* only the outline of the padded rectangle is stroked, and the image is drawn on
\* exactly the icon's square.
C13_TransparentFillsNothing ==
    (IconPainted /\ call.options.backgroundType = "transparent")
    => \A i \in 1..Len(result.ops) :
          \/ result.ops[i].op = "stroke"
          \/ /\ result.ops[i].op = "drawImage"
             /\ result.ops[i].x = result.x /\ result.ops[i].y = result.y
             /\ result.ops[i].width = result.iconSize
             /\ result.ops[i].height = result.iconSize

C13_Witness ==
    /\ IconPainted
    /\ call.options.backgroundType = "transparent"
    /\ call.options.padding = PopupIconPadding
    /\ Len(result.ops) = 2
    /\ result.ops[1].op = "stroke"
    /\ result.ops[1].path.x < result.x
    /\ result.ops[2].op = "drawImage"

(***************************************************************************)
(* The popup's SVG export of what it rendered: the render of generateQRCode *)
(* (App.tsx 89-111) without an icon, getImageData, and the encoder.  The   *)
(* symbols are small so that every pixel is kept.                          *)
(***************************************************************************)
Red == "#ff0000"
Navy == "#00007f"

\* The bytes the canvas holds for a pixel filled in an opaque #rrggbb colour.
Rgba(colour) ==
    CASE colour = Black -> <<0, 0, 0, 255>>
      [] colour = White -> <<255, 255, 255, 255>>
      [] colour = Red   -> <<255, 0, 0, 255>>
      [] colour = Navy  -> <<0, 0, 127, 255>>

\* generateQRCode from the layout to the modules (App.tsx 89-111): the canvas is
\* resized, filled with backgroundColor, and the modules drawn.
PopupRender(a) ==
    LET layout == PopupLayout(a.size, a.margin, a.qrModuleCount)
    IN  DrawStyledQRCode(
            FillRect(BlankSurface(a.size, a.size, "transparent"), 0, 0, a.size, a.size,
                     a.backgroundColor),
            [qrModuleCount |-> a.qrModuleCount, qrIsDark |-> a.qrIsDark,
             cellSize |-> layout.cellSize, offset |-> layout.offset,
             dotsColor |-> a.dotsColor, dotType |-> a.dotType,
             cornerRadius |-> a.cornerRadius]).surface

\* ctx.getImageData(0, 0, canvas.width, canvas.height) of a surface each pixel of
\* which was last filled whole with an opaque colour.
GetImageData(s) ==
    ImageData(s.width, s.height, [p \in DOMAIN s.px |-> Rgba(s.px[p][Len(s.px[p])])])

ExportSize == 5
ExportMaxMargin == 1
ExportMaxModules == 2

\* dotsColor and backgroundColor as the colour inputs give them.
ExportColours == {<<Black, White>>, <<Navy, White>>, <<Red, White>>, <<White, Black>>}

ExportCalls ==
    UNION { { [fn |-> f, size |-> ExportSize, margin |-> m, qrModuleCount |-> n,
               qrIsDark |-> d, dotsColor |-> c[1], backgroundColor |-> c[2],
               dotType |-> "square", cornerRadius |-> 0] :
              f \in {"downloadQR", "canvasToAdvancedSVG"}, m \in {0, ExportMaxMargin},
              d \in Oracles(n), c \in ExportColours } :
            n \in 1..ExportMaxModules }

ExportInit == call \in ExportCalls /\ result = Pending /\ PopupIdle

\* downloadQR('svg') (App.tsx 157-159) on the canvas the render left.
ApplyDownloadSvg ==
    /\ call.fn = "downloadQR"
    /\ result = Pending
    /\ LET img == GetImageData(PopupRender(call))
       IN  result' = [img |-> img,
                      svg |-> CanvasToSVG(img, call.backgroundColor, call.dotsColor)]
    /\ UNCHANGED <<call, popupVars, windowVars>>

\* canvasToAdvancedSVG (qrStyler.ts 185-238) on the same canvas.
ApplyAdvancedSvg ==
    /\ call.fn = "canvasToAdvancedSVG"
    /\ result = Pending
    /\ LET img == GetImageData(PopupRender(call))
       IN  result' = [img |-> img,
                      svg |-> CanvasToAdvancedSVG(img, call.backgroundColor,
                                 call.dotsColor, call.dotType, call.cornerRadius)]
    /\ UNCHANGED <<call, popupVars, windowVars>>

ExportNext == ApplyDownloadSvg \/ ApplyAdvancedSvg

SpecExport == ExportInit /\ [][ExportNext]_vars

Exported == call.fn \in {"downloadQR", "canvasToAdvancedSVG"} /\ Done

\* What an SVG renderer shows for the markup: each pixel takes the fill of the last
\* rect covering it (the background rect covers all).
SvgCovers(el, p) ==
    /\ el.el = "rect"
    /\ \/ "x" \notin DOMAIN el
       \/ /\ el.x <= p[1] /\ p[1] < el.x + el.width
          /\ el.y <= p[2] /\ p[2] < el.y + el.height

Rasterize(svg) ==
    LET W == svg[1].width
        H == svg[1].height
        top(p) == CHOOSE i \in 1..Len(svg) :
                     /\ SvgCovers(svg[i], p)
                     /\ \A j \in (i + 1)..Len(svg) : ~SvgCovers(svg[j], p)
    IN  ImageData(W, H, [p \in Pixels(W, H) |-> Rgba(svg[top(p)].fill)])

\* The pixels of the cells of the dark modules of the exported render.
ModulePixels ==
    LET layout == PopupLayout(call.size, call.margin, call.qrModuleCount)
        a == [offset |-> layout.offset, cellSize |-> layout.cellSize]
    IN  { p \in Pixels(call.size, call.size) :
            \E m \in call.qrIsDark : InCell(p, a, m[1], m[2]) }

SvgDots == { <<result.svg[i].x, result.svg[i].y>> : i \in 3..(Len(result.svg) - 1) }

\* C14: for every dotsColor and backgroundColor, rasterizing the exported markup and
\* applying the dark-pixel test gives exactly the dark pixels of the exported
\* surface.
C14_SvgRoundTrip ==
    Exported => DarkPixels(Rasterize(result.svg)) = DarkPixels(result.img)

\* C15: for every dotsColor and backgroundColor, the exported markup has a dotsColor
\* rectangle at exactly the pixels painted as module cells, and none at a pixel that
\* shows only the background.
C15_SvgMirrorsRaster ==
    Exported => SvgDots = ModulePixels

(***************************************************************************)
(* The sidebar (entrypoints/sidebar/Sidebar.tsx): the settings view.  A    *)
(* request in `loading` is a record; a write in `writes` carries the       *)
(* handler that awaits it.  The controls are shown once the settings have  *)
(* been loaded (settingsLoading false).                                    *)
(***************************************************************************)
MaxIconBytes == 500000
MaxUploads == 1

IconB == "data:image/png;base64,BBBB"

\* file.type.startsWith('image/'), over the MIME types of the files offered.
MimeTypes == {"image/png", "text/plain", "image"}
StartsWithImage(type) == type \in {"image/png"}

UploadFiles ==
    { [type |-> t, size |-> z] :
        t \in MimeTypes, z \in {MaxIconBytes, MaxIconBytes + 1, MaxIconBytes + 100000} }

ValidIcon_noSizeLimit(file) == StartsWithImage(file.type)

\* The two validations of handleIconUpload (Sidebar.tsx 62-72).
ValidIcon(file) == StartsWithImage(file.type) /\ ~(file.size > MaxIconBytes)

\* What fileToBase64 resolves to (storageManager.ts 107-121): the file's data URL.
FileToBase64(file) == IconB

SettingsRequest == [req |-> "settings"]
ResetRead == [req |-> "resetRead"]
FileReads == { r \in loading : r.req = "file" }
SettingsShown == SettingsRequest \notin loading

SidebarChoices ==
    { <<"centerIcon", NoIcon>>, <<"dotType", "rounded">>, <<"dotType", "square">> }

SidebarInit ==
    /\ call = NoCall /\ result = Pending
    /\ PopupMounted
    /\ storage \in EarlierStorage
    /\ loading = {SettingsRequest}
    /\ WindowIdle

\* loadSettings (Sidebar.tsx 30-41): getQRSettings resolved.
SidebarLoadResolve ==
    /\ SettingsRequest \in loading
    /\ loading' = loading \ {SettingsRequest}
    /\ qrOptions' = GetQRSettings(storage)
    /\ qrError' = Null
    /\ UNCHANGED <<pureVars, windowVars, currentUrl, effectPending, canvas, renderLog,
                   lastExport, storage, writes>>

\* loadSettings: getQRSettings rejected.
SidebarLoadReject ==
    /\ SettingsRequest \in loading
    /\ loading' = loading \ {SettingsRequest}
    /\ qrError' = "Failed to load settings"
    /\ UNCHANGED <<pureVars, windowVars, currentUrl, qrOptions, effectPending, canvas,
                   renderLog, lastExport, storage, writes>>

\* updateSetting (Sidebar.tsx 46-56) up to its await; removeCenterIcon is the call
\* with centerIcon undefined.
SidebarUpdateSetting(key, value) ==
    /\ SettingsShown
    /\ Len(writes) < MaxWrites
    /\ LET updated == [qrOptions EXCEPT ![key] = value]
       IN  /\ qrOptions' = updated
           /\ writes' = Append(writes, [settings |-> updated, by |-> "updateSetting"])
    /\ UNCHANGED <<pureVars, windowVars, currentUrl, qrError, effectPending, canvas,
                   renderLog, lastExport, storage, loading>>

\* handleIconUpload (Sidebar.tsx 58-87) up to its first await: a file that fails a
\* validation sets the banner and returns; otherwise the file read starts, and the
\* handler keeps the qrOptions of the render it was created in.
HandleIconUpload(file) ==
    /\ SettingsShown
    /\ IF ~StartsWithImage(file.type)
       THEN /\ qrError' = "Please upload an image file"
            /\ UNCHANGED loading
       ELSE IF ~ValidIcon(file)
       THEN /\ qrError' = "Icon file must be smaller than 500KB"
            /\ UNCHANGED loading
       ELSE /\ Cardinality(FileReads) < MaxUploads
            /\ loading' = loading \cup {[req |-> "file", file |-> file,
                                         options |-> qrOptions]}
            /\ UNCHANGED qrError
    /\ UNCHANGED <<pureVars, windowVars, currentUrl, qrOptions, effectPending, canvas,
                   renderLog, lastExport, storage, writes>>

\* fileToBase64 resolved: updateSetting('centerIcon', base64) up to its await.
FileReadResolve(r) ==
    /\ r \in FileReads
    /\ Len(writes) < MaxWrites
    /\ loading' = loading \ {r}
    /\ LET updated == [r.options EXCEPT !.centerIcon = FileToBase64(r.file)]
       IN  /\ qrOptions' = updated
           /\ writes' = Append(writes, [settings |-> updated, by |-> "handleIconUpload"])
    /\ UNCHANGED <<pureVars, windowVars, currentUrl, qrError, effectPending, canvas,
                   renderLog, lastExport, storage>>

\* fileToBase64 rejected: the catch of handleIconUpload.
FileReadReject(r) ==
    /\ r \in FileReads
    /\ loading' = loading \ {r}
    /\ qrError' = "Failed to upload icon"
    /\ UNCHANGED <<pureVars, windowVars, currentUrl, qrOptions, effectPending, canvas,
                   renderLog, lastExport, storage, writes>>

\* resetAllSettings (Sidebar.tsx 93-105), confirmed, up to its first await.
ResetAllSettings ==
    /\ SettingsShown
    /\ Len(writes) < MaxWrites
    /\ writes' = Append(writes, [settings |-> DEFAULT_SETTINGS, by |-> "resetAllSettings"])
    /\ UNCHANGED <<pureVars, windowVars, currentUrl, qrOptions, qrError, effectPending,
                   canvas, renderLog, lastExport, storage, loading>>

\* The oldest write completed, and the handler awaiting it resumed: updateSetting
\* clears the banner, handleIconUpload after it clears it again, resetAllSettings
\* goes on to read the settings back.
SidebarSaveResolve ==
    /\ writes # <<>>
    /\ storage' = IF Head(writes).by = "resetAllSettings"
                  THEN ResetQRSettings(storage)
                  ELSE SetQRSettings(storage, Head(writes).settings)
    /\ writes' = Tail(writes)
    /\ IF Head(writes).by = "resetAllSettings"
       THEN /\ loading' = loading \cup {ResetRead}
            /\ UNCHANGED qrError
       ELSE /\ qrError' = Null
            /\ UNCHANGED loading
    /\ UNCHANGED <<pureVars, windowVars, currentUrl, qrOptions, effectPending, canvas,
                   renderLog, lastExport>>

\* The oldest write failed.  updateSetting catches the error and sets the banner;
\* it rethrows nothing, so handleIconUpload awaiting it goes on to clear the banner.
SidebarSaveReject ==
    /\ writes # <<>>
    /\ writes' = Tail(writes)
    /\ qrError' = CASE Head(writes).by = "updateSetting" -> "Failed to save settings"
                    [] Head(writes).by = "handleIconUpload" -> Null
                    [] Head(writes).by = "resetAllSettings" -> "Failed to reset settings"
    /\ UNCHANGED <<pureVars, windowVars, currentUrl, qrOptions, effectPending, canvas,
                   renderLog, lastExport, storage, loading>>

\* resetAllSettings: the getQRSettings after the reset resolved.
ResetReadResolve ==
    /\ ResetRead \in loading
    /\ loading' = loading \ {ResetRead}
    /\ qrOptions' = GetQRSettings(storage)
    /\ qrError' = Null
    /\ UNCHANGED <<pureVars, windowVars, currentUrl, effectPending, canvas, renderLog,
                   lastExport, storage, writes>>

\* resetAllSettings: the getQRSettings after the reset rejected.
ResetReadReject ==
    /\ ResetRead \in loading
    /\ loading' = loading \ {ResetRead}
    /\ qrError' = "Failed to reset settings"
    /\ UNCHANGED <<pureVars, windowVars, currentUrl, qrOptions, effectPending, canvas,
                   renderLog, lastExport, storage, writes>>

SidebarNext ==
    \/ SidebarLoadResolve
    \/ SidebarLoadReject
    \/ \E c \in SidebarChoices : SidebarUpdateSetting(c[1], c[2])
    \/ \E file \in UploadFiles : HandleIconUpload(file)
    \/ \E r \in FileReads : FileReadResolve(r)
    \/ \E r \in FileReads : FileReadReject(r)
    \/ ResetAllSettings
    \/ SidebarSaveResolve
    \/ SidebarSaveReject
    \/ ResetReadResolve
    \/ ResetReadReject

SpecSidebar == SidebarInit /\ [][SidebarNext]_vars

\* A file the contract rejects: not of an image type, or over the size limit.
FailsValidation(file) == file.type # "image/png" \/ file.size > MaxIconBytes

\* C16: an icon upload that fails validation (not image/*, or over the size limit,
\* such as 600KB) sets the error banner and starts nothing: no file read and no
\* write is issued, and centerIcon is unchanged in memory and in storage.
C16_RejectedUploadWritesNothing ==
    [][\A file \in UploadFiles :
          (FailsValidation(file) /\ HandleIconUpload(file))
          => /\ qrError' # Null
             /\ writes' = writes
             /\ loading' = loading
             /\ storage' = storage
             /\ qrOptions' = qrOptions]_vars

C16_Witness ==
    /\ qrError = "Icon file must be smaller than 500KB"
    /\ qrOptions.centerIcon = IconA
    /\ STORAGE_KEY \in DOMAIN storage
    /\ storage[STORAGE_KEY].centerIcon = IconA
    /\ writes = <<>>
    /\ loading = {}

\* A record with every field it lacks filled in from the defaults.
FilledIn(record) ==
    [k \in DOMAIN DEFAULT_SETTINGS |->
        IF k \in DOMAIN record THEN record[k] ELSE DEFAULT_SETTINGS[k]]

\* C20: getQRSettings resolves to the defaults when nothing is stored and once a
\* reset has completed, whatever was stored before; otherwise to the record last
\* saved, with the fields it lacks filled in from the defaults.
C20_ReadsDefaultsOrLastSaved ==
    /\ [](GetQRSettings(storage) =
            IF STORAGE_KEY \in DOMAIN storage THEN FilledIn(storage[STORAGE_KEY])
            ELSE DEFAULT_SETTINGS)
    /\ [][SidebarSaveResolve
          => GetQRSettings(storage') =
                IF Head(writes).by = "resetAllSettings" THEN DEFAULT_SETTINGS
                ELSE Head(writes).settings]_vars

C20_Witness ==
    /\ ResetRead \in loading
    /\ qrOptions.centerIcon = IconB
    /\ STORAGE_KEY \in DOMAIN storage
    /\ "centerIcon" \notin DOMAIN storage[STORAGE_KEY]
    /\ GetQRSettings(storage) = DEFAULT_SETTINGS

\* C19: every failed storage read or write sets the view's error banner to a
\* message, and the settings in memory stay a complete configuration; stated here
\* for the popup.
C19_StorageFailureShowsBanner ==
    [][(LoadSettingsReject \/ SaveReject)
       => /\ qrError' # Null
          /\ DOMAIN qrOptions' = DOMAIN DEFAULT_SETTINGS]_vars

(***************************************************************************)
(* The QR window (entrypoints/qr-window/QRWindow.tsx).  `search` is what   *)
(* the data parameter of the URL holds: nothing, text that does not        *)
(* decode or parse, or a JSON value.  A field of a JSON object is a string *)
(* or something else (absent, or of another type).                         *)
(***************************************************************************)
NotString == [is |-> "other"]
Str(text) == [is |-> "string", s |-> text]

TypeFields == {NotString, Str("text"), Str("IMAGE"), Str("bogus"), Str("constructor")}
ContentFields == {NotString, Str(""), Str("   "), Str("  hi  "), Str(LongUrl)}
UrlFields == {NotString, Str(TabUrl)}

Searches ==
    { NoSearch, [kind |-> "malformed"] }
    \cup { [kind |-> "json", t |-> t] : t \in {"null", "number", "string", "array"} }
    \cup { [kind |-> "json", t |-> "object", type |-> ty, content |-> c, url |-> u] :
             ty \in TypeFields, c \in ContentFields, u \in UrlFields }

\* String.prototype.toLowerCase and trim, over the strings above.
ToLowerCase(text) == IF text = "IMAGE" THEN "image" ELSE text
Trim(text) == CASE text = "   " -> "" [] text = "  hi  " -> "hi" [] OTHER -> text

\* rawType in TYPE_CLASS_MAP: the five keys, and what the object inherits.
InTypeClassMap(rawType) ==
    rawType \in {"link", "text", "image", "video", "audio", "constructor"}

\* The field of a parsed JSON value: an array and an object lacking it have none.
Field(parsed, name) == IF name \in DOMAIN parsed THEN parsed[name] ELSE NotString
StringOr(field, default) == IF field.is = "string" THEN field.s ELSE default

\* The object parseQueryParams hands to setData (QRWindow.tsx 62-78).
ParsedData(parsed) ==
    LET rawType == IF Field(parsed, "type").is = "string"
                   THEN ToLowerCase(Field(parsed, "type").s) ELSE "link"
    IN  [type |-> IF InTypeClassMap(rawType) THEN rawType ELSE "link",
         content |-> StringOr(Field(parsed, "content"), ""),
         url |-> StringOr(Field(parsed, "url"), "")]

WindowInit ==
    /\ call = NoCall /\ result = Pending
    /\ PopupMounted
    /\ storage = EmptyStorage
    /\ loading = TRUE
    /\ search \in Searches
    /\ WindowMounted

\* The two effects of the mount (QRWindow.tsx 39-50): parseQueryParams and
\* setLoading(false); the render effect finds data.content empty.  setData makes
\* the render effect run again.
WindowMount ==
    /\ loading = TRUE
    /\ loading' = FALSE
    /\ IF search.kind = "missing"
       THEN /\ error' = "No data provided"
            /\ UNCHANGED <<data, effectPending>>
       ELSE IF search.kind = "malformed"
       THEN /\ error' = "Invalid data format"
            /\ UNCHANGED <<data, effectPending>>
       ELSE IF search.t \in {"object", "array"}
       THEN /\ data' = ParsedData(search)
            /\ effectPending' = TRUE
            /\ UNCHANGED error
       ELSE UNCHANGED <<data, error, effectPending>>
    /\ UNCHANGED <<pureVars, currentUrl, qrOptions, qrError, canvas, renderLog,
                   lastExport, storage, writes, search, copySuccess>>

\* renderQRCode (QRWindow.tsx 86-134).
RenderQRCode ==
    LET normalized == Trim(data.content)
    IN  IF normalized = ""
        THEN /\ error' = "Nothing to encode. Select some content first."
             /\ UNCHANGED canvas
        ELSE IF Encodable(normalized)
        THEN /\ error' = Null
             /\ canvas' = [width |-> QR_SIZE, height |-> QR_SIZE, modules |-> 1,
                           overlays |-> <<>>]
        ELSE /\ error' = "Unable to generate a QR code for this content."
             /\ UNCHANGED canvas

\* The effect on [data] (QRWindow.tsx 45-50).
WindowRenderEffect ==
    /\ effectPending
    /\ effectPending' = FALSE
    /\ IF data.content # "" THEN RenderQRCode ELSE UNCHANGED <<error, canvas>>
    /\ UNCHANGED <<pureVars, currentUrl, qrOptions, qrError, renderLog, lastExport,
                   storage, writes, loading, search, data, copySuccess>>

ButtonsEnabled == loading = FALSE /\ Trim(data.content) # ""

\* downloadPng and downloadSvg (QRWindow.tsx 136-165) read the canvas as it is.
WindowDownload(format) ==
    /\ ButtonsEnabled
    /\ lastExport' = [format |-> format, canvas |-> canvas]
    /\ UNCHANGED <<pureVars, windowVars, currentUrl, qrOptions, qrError, effectPending,
                   canvas, renderLog, storage, writes, loading>>

\* copyToClipboard (QRWindow.tsx 167-176): the write succeeded or failed.
CopyToClipboard(ok) ==
    /\ ButtonsEnabled
    /\ IF ok THEN copySuccess' = TRUE /\ UNCHANGED error
       ELSE error' = "Failed to copy content." /\ UNCHANGED copySuccess
    /\ UNCHANGED <<pureVars, currentUrl, qrOptions, qrError, effectPending, canvas,
                   renderLog, lastExport, storage, writes, loading, search, data>>

\* The timer copyToClipboard set.
CopyTimeout ==
    /\ copySuccess
    /\ copySuccess' = FALSE
    /\ UNCHANGED <<pureVars, currentUrl, qrOptions, qrError, effectPending, canvas,
                   renderLog, lastExport, storage, writes, loading, search, data, error>>

WindowNext ==
    \/ WindowMount
    \/ WindowRenderEffect
    \/ \E format \in {"png", "svg"} : WindowDownload(format)
    \/ \E ok \in BOOLEAN : CopyToClipboard(ok)
    \/ CopyTimeout

SpecWindow == WindowInit /\ [][WindowNext]_vars

WindowSettled == loading = FALSE /\ ~effectPending

\* C17: whenever QR encoding throws during a render, a user-visible error message is
\* set and the surface is repainted: cleared to the background with the fallback
\* 'unavailable' message on it; stated here for the QR window.
C17_EncodeFailurePaintsFallback ==
    (WindowSettled /\ Trim(data.content) # "" /\ ~Encodable(Trim(data.content)))
    => /\ error # Null
       /\ canvas # NewCanvas
       /\ canvas.modules = 0

\* C18: whenever there is nothing to encode (no data parameter, one that does not
\* parse to a payload, or a content that is empty or only whitespace), an error
\* message is set and no module is painted; stated here for the QR window.
C18_NothingToEncodeShowsError ==
    (WindowSettled /\ Trim(data.content) = "")
    => /\ error # Null
       /\ canvas.modules = 0

(***************************************************************************)
(* The payload on its way into the QR window: JSON.stringify and           *)
(* encodeURIComponent in the sender (background.ts 72-77, App.tsx 231-240),*)
(* URLSearchParams.get, decodeURIComponent and JSON.parse in the receiver  *)
(* (QRWindow.tsx 52-60).  content and url are sequences of characters; the *)
(* type is one of the handler's literals.  The JSON text is kept as the    *)
(* record of its strings: its punctuation is encoded by the sender and     *)
(* decoded by URLSearchParams, and holds no '%' for the second decode.     *)
(***************************************************************************)
MaxContentLen == 3

Chars == {"x", "%", "2", "0", "5"}
IsHex(c) == c \in {"2", "0", "5"}

Texts(n) == UNION { [1..k -> Chars] : k \in 0..n }

\* encodeURIComponent, character by character: '%' is escaped, letters and digits
\* are kept.
RECURSIVE EncodeURIComponent(_)
EncodeURIComponent(text) ==
    IF text = <<>> THEN <<>>
    ELSE (IF Head(text) = "%" THEN <<"%", "2", "5">> ELSE <<Head(text)>>)
         \o EncodeURIComponent(Tail(text))

\* The character a %XX escape stands for, over the hex digits above.
Unescape(h1, h2) ==
    CASE h1 = "2" /\ h2 = "0" -> " "
      [] h1 = "2" /\ h2 = "2" -> "\""
      [] h1 = "2" /\ h2 = "5" -> "%"
      [] h1 = "5" /\ h2 = "0" -> "P"
      [] h1 = "5" /\ h2 = "2" -> "R"
      [] h1 = "5" /\ h2 = "5" -> "U"
      [] h1 = "0" /\ h2 = "0" -> "\\u0000"
      [] h1 = "0" /\ h2 = "2" -> "\\u0002"
      [] h1 = "0" /\ h2 = "5" -> "\\u0005"

EscapeAt(text) == Len(text) >= 3 /\ Head(text) = "%" /\ IsHex(text[2]) /\ IsHex(text[3])

\* What URLSearchParams.get returns for a value: every %XX is replaced, a '%' that
\* starts no escape is kept.
RECURSIVE SearchParamsGet(_)
SearchParamsGet(text) ==
    IF text = <<>> THEN <<>>
    ELSE IF EscapeAt(text)
    THEN <<Unescape(text[2], text[3])>> \o SearchParamsGet(SubSeq(text, 4, Len(text)))
    ELSE <<Head(text)>> \o SearchParamsGet(Tail(text))

\* Whether decodeURIComponent throws URIError: a '%' that starts no escape.
RECURSIVE Malformed(_)
Malformed(text) ==
    IF text = <<>> THEN FALSE
    ELSE IF EscapeAt(text) THEN Malformed(SubSeq(text, 4, Len(text)))
    ELSE Head(text) = "%" \/ Malformed(Tail(text))

\* decodeURIComponent of a text it does not throw on.
DecodeURIComponent(text) == SearchParamsGet(text)

\* Whether JSON.parse throws on a string literal holding these characters raw: a
\* quote ends the literal early, a control character is not allowed in one.
BreaksJson(text) ==
    \E i \in 1..Len(text) : text[i] \in {"\"", "\\u0000", "\\u0002", "\\u0005"}

\* The strings of an object: content and, when it has one, url.
TextFields(object) == DOMAIN object \ {"type"}

\* `?data=${encodeURIComponent(JSON.stringify(data))}`
WindowUrlData(object) ==
    [k \in DOMAIN object |->
        IF k = "type" THEN object[k] ELSE EncodeURIComponent(object[k])]

\* parseQueryParams (QRWindow.tsx 52-84) on the data parameter of such a URL: what
\* it hands to setData and to setError, if anything.
ParseQueryParams(query) ==
    LET payload == [k \in DOMAIN query |->
                      IF k = "type" THEN query[k] ELSE SearchParamsGet(query[k])]
    IN  IF \E k \in TextFields(payload) : Malformed(payload[k])
        THEN [error |-> "Invalid data format"]
        ELSE LET decoded == [k \in DOMAIN payload |->
                               IF k = "type" THEN payload[k]
                               ELSE DecodeURIComponent(payload[k])]
             IN  IF \E k \in TextFields(decoded) : BreaksJson(decoded[k])
                 THEN [error |-> "Invalid data format"]
                 ELSE [data |-> ParsedData([k \in DOMAIN decoded |-> Str(decoded[k])])]

\* The context-menu handler (background.ts 41-82): the object it serializes.
MenuTypes == {"link", "text", "image", "video", "audio"}
ContextMenuData(menuType, content, tabUrl) ==
    [type |-> menuType, content |-> content, url |-> tabUrl]

\* openInWindow (App.tsx 231-240): the object it serializes.
OpenInWindowData(url) == [type |-> "link", content |-> url]

PayloadCalls ==
    { [fn |-> "onClicked", type |-> t, content |-> c, url |-> u] :
        t \in MenuTypes, c \in Texts(MaxContentLen), u \in {<<>>, <<"x", "%", "2">>} }
    \cup { [fn |-> "openInWindow", content |-> c] : c \in Texts(MaxContentLen) }

PayloadInit == call \in PayloadCalls /\ result = Pending /\ PopupIdle

ApplyOnClicked ==
    /\ call.fn = "onClicked"
    /\ result = Pending
    /\ LET sent == ContextMenuData(call.type, call.content, call.url)
       IN  result' = [sent |-> sent, parsed |-> ParseQueryParams(WindowUrlData(sent))]
    /\ UNCHANGED <<call, popupVars, windowVars>>

ApplyOpenInWindow ==
    /\ call.fn = "openInWindow"
    /\ result = Pending
    /\ LET sent == OpenInWindowData(call.content)
       IN  result' = [sent |-> sent, parsed |-> ParseQueryParams(WindowUrlData(sent))]
    /\ UNCHANGED <<call, popupVars, windowVars>>

PayloadNext == ApplyOnClicked \/ ApplyOpenInWindow

SpecPayload == PayloadInit /\ [][PayloadNext]_vars

Delivered == call.fn \in {"onClicked", "openInWindow"} /\ Done

\* C21: for every payload the context-menu handler or the popup serializes,
\* including content holding '%' or percent-encoded sequences, the window reports
\* no parse error and its data has the same type, content and url.
C21_PayloadRoundTrip ==
    Delivered
    => /\ "error" \notin DOMAIN result.parsed
       /\ result.parsed.data.type = result.sent.type
       /\ result.parsed.data.content = result.sent.content
       /\ ("url" \in DOMAIN result.sent) => result.parsed.data.url = result.sent.url

\* C22: after the data parameter has been parsed, whatever JSON value and type
\* string it held, the window's payload type is one of link, text, image, video and
\* audio, and its content and url are strings.
C22_PayloadWellTyped ==
    loading = FALSE
    => /\ data.type \in {"link", "text", "image", "video", "audio"}
       /\ data.content \in STRING
       /\ data.url \in STRING


(***************************************************************************)
(* The popup canvas after a render and the icon handlers that ran on it.   *)
(* The pixel followed is one on the outer rim of the icon plate's outline: *)
(* the stroke is centred on the plate's edge, so its outer half lies       *)
(* outside the plate, where neither the plate's fill nor the icon paints.  *)
(***************************************************************************)
OverlayOptions(overlay) ==
    [iconBase64 |-> overlay.icon, size |-> PopupIconSize,
     padding |-> PopupIconPadding, borderRadius |-> PopupIconBorderRadius,
     backgroundType |-> overlay.backgroundType,
     backgroundColor |-> overlay.backgroundColor,
     backgroundBorderRadius |-> overlay.backgroundBorderRadius]

\* The paints of one onload that reach the rim pixel: its strokes.
RimPaints(overlay) ==
    LET ops == OnloadPaint(OverlayOptions(overlay), overlay.canvasSize).ops
    IN  SelectSeq(ops, LAMBDA o : o.op = "stroke")

RECURSIVE StrokeOver(_, _)
StrokeOver(pixel, strokes) ==
    IF strokes = << >> THEN pixel
    ELSE StrokeOver(Over(pixel, Head(strokes).style), Tail(strokes))

RECURSIVE PaintOverlays(_, _)
PaintOverlays(pixel, overlays) ==
    IF overlays = << >> THEN pixel
    ELSE PaintOverlays(StrokeOver(pixel, RimPaints(Head(overlays))), Tail(overlays))

\* The rim pixel of canvas c: what the render painted there (App.tsx 98-111), then
\* every onload stroke since (qrStyler.ts 62-85); translucent strokes add up.
RimPixel(c) ==
    PaintOverlays(Solid(renderLog[c.modules].options.backgroundColor), c.overlays)

\* The canvas after render id has run alone and its icon, if any, was painted.
RenderedOnce(id) ==
    LET entry == renderLog[id]
    IN  [width |-> entry.options.size, height |-> entry.options.size, modules |-> id,
         overlays |->
            IF entry.encoded /\ entry.options.centerIcon # NoIcon
            THEN << [render |-> id, icon |-> entry.options.centerIcon,
                     backgroundType |-> entry.options.iconBackgroundType,
                     backgroundColor |-> entry.options.iconBackgroundColor,
                     backgroundBorderRadius |-> entry.options.iconBorderRadius,
                     canvasSize |-> entry.options.size] >>
            ELSE << >>]

\* The last two renders had the same URL and configuration, and every image they
\* created has been painted.
RenderedTwice ==
    /\ Len(renderLog) >= 2
    /\ canvas.modules = Len(renderLog)
    /\ renderLog[Len(renderLog)].url = renderLog[Len(renderLog) - 1].url
    /\ renderLog[Len(renderLog)].options = renderLog[Len(renderLog) - 1].options
    /\ renderLog[Len(renderLog)].encoded
    /\ \A id \in 1..Len(renderLog) : renderLog[id].image \in {"painted", "none"}

\* C23: rendering is idempotent: after the popup render has run twice with the same
\* URL and configuration, the surface is pixel for pixel the one a single run
\* leaves, also with a centre icon and when the second run started before the
\* first run's icon was decoded.
C23_RenderIdempotent ==
    RenderedTwice => RimPixel(canvas) = RimPixel(RenderedOnce(Len(renderLog)))

\* C24: when the storage write fails during an icon upload (handleIconUpload
\* calling updateSetting), the save-failure banner is still displayed once
\* handleIconUpload has finished.
C24_UploadSaveFailureShowsBanner ==
    [][(SidebarSaveReject /\ Head(writes).by = "handleIconUpload")
       => qrError' # Null]_vars

(***************************************************************************)
(* updateQRSetting (utils/storageManager.ts 88-102): a read of the stored  *)
(* settings, then a write of the record read with one key replaced.  Each  *)
(* call is a record in `loading`, at the storage operation it awaits or at *)
(* the outcome of its promise.                                             *)
(***************************************************************************)
MaxCalls == 2

\* The (key, value) arguments the calls are given.
UpdateChoices ==
    { <<"size", MaxSize>>, <<"margin", 0>>, <<"dotType", "rounded">> }

UpdateCalls == { c \in loading : c.req = "updateQRSetting" }
AwaitingGet == { c \in UpdateCalls : c.pc = "getQRSettings" }
AwaitingSave == { c \in UpdateCalls : c.pc = "saveQRSettings" }

UpdateInit ==
    /\ call = NoCall /\ result = Pending
    /\ PopupMounted
    /\ storage \in EarlierStorage
    /\ loading = {}
    /\ WindowIdle

\* updateQRSetting(key, value) up to `await getQRSettings()`.
UpdateQRSetting(key, value) ==
    /\ Cardinality(UpdateCalls) < MaxCalls
    /\ loading' = loading \cup {[req |-> "updateQRSetting",
                                 id |-> Cardinality(UpdateCalls) + 1,
                                 key |-> key, value |-> value, pc |-> "getQRSettings"]}
    /\ UNCHANGED <<pureVars, windowVars, currentUrl, qrOptions, qrError, effectPending,
                   canvas, renderLog, lastExport, storage, writes>>

\* The [key]: value spread of updateQRSetting (storageManager.ts 95).
WithSetting(current, key, value) == [current EXCEPT ![key] = value]

\* getQRSettings resolved: updated = {...current, [key]: value}, up to
\* `await saveQRSettings(updated)`.
UpdateGetResolve(c) ==
    /\ c \in AwaitingGet
    /\ loading' = (loading \ {c}) \cup
                  {[req |-> "updateQRSetting", id |-> c.id, key |-> c.key,
                    value |-> c.value, pc |-> "saveQRSettings",
                    updated |-> WithSetting(GetQRSettings(storage), c.key, c.value)]}
    /\ UNCHANGED <<pureVars, windowVars, currentUrl, qrOptions, qrError, effectPending,
                   canvas, renderLog, lastExport, storage, writes>>

\* getQRSettings rejected: the catch rejects the call's promise.
UpdateGetReject(c) ==
    /\ c \in AwaitingGet
    /\ loading' = (loading \ {c}) \cup
                  {[req |-> "updateQRSetting", id |-> c.id, key |-> c.key,
                    value |-> c.value, pc |-> "rejected"]}
    /\ UNCHANGED <<pureVars, windowVars, currentUrl, qrOptions, qrError, effectPending,
                   canvas, renderLog, lastExport, storage, writes>>

\* saveQRSettings resolved: the record is stored and the promise resolves to it.
UpdateSaveResolve(c) ==
    /\ c \in AwaitingSave
    /\ storage' = SetQRSettings(storage, c.updated)
    /\ loading' = (loading \ {c}) \cup
                  {[req |-> "updateQRSetting", id |-> c.id, key |-> c.key,
                    value |-> c.value, pc |-> "resolved", updated |-> c.updated]}
    /\ UNCHANGED <<pureVars, windowVars, currentUrl, qrOptions, qrError, effectPending,
                   canvas, renderLog, lastExport, writes>>

\* saveQRSettings rejected: nothing is stored and the promise is rejected.
UpdateSaveReject(c) ==
    /\ c \in AwaitingSave
    /\ loading' = (loading \ {c}) \cup
                  {[req |-> "updateQRSetting", id |-> c.id, key |-> c.key,
                    value |-> c.value, pc |-> "rejected"]}
    /\ UNCHANGED <<pureVars, windowVars, currentUrl, qrOptions, qrError, effectPending,
                   canvas, renderLog, lastExport, storage, writes>>

UpdateNext ==
    \/ \E c \in UpdateChoices : UpdateQRSetting(c[1], c[2])
    \/ \E c \in AwaitingGet : UpdateGetResolve(c)
    \/ \E c \in AwaitingGet : UpdateGetReject(c)
    \/ \E c \in AwaitingSave : UpdateSaveResolve(c)
    \/ \E c \in AwaitingSave : UpdateSaveReject(c)

SpecUpdate == UpdateInit /\ [][UpdateNext]_vars

Resolved == { c \in UpdateCalls : c.pc = "resolved" }

\* C25: updateQRSetting updates a single setting, in every interleaving of two
\* calls on different keys: once both have resolved, the stored record holds both
\* changes.
C25_BothUpdatesKept ==
    \A c, d \in Resolved :
        c.key # d.key
        => /\ GetQRSettings(storage)[c.key] = c.value
           /\ GetQRSettings(storage)[d.key] = d.value

(***************************************************************************)
(* The glow setting.  The sidebar's checkbox stores glowEffect             *)
(* (Sidebar.tsx 263-274); the popup's render is generateQRCode             *)
(* (App.tsx 97-125), whose drawing passes are listed in the order it makes *)
(* them.                                                                   *)
(***************************************************************************)
GlowCalls ==
    UNION { { [fn |-> "generateQRCode", size |-> ExportSize, margin |-> m,
               qrModuleCount |-> n, qrIsDark |-> d, dotsColor |-> c[1],
               backgroundColor |-> c[2], dotType |-> "square", cornerRadius |-> 0,
               centerIcon |-> NoIcon, glowEffect |-> g] :
              m \in {0, ExportMaxMargin}, d \in Oracles(n),
              c \in {<<Black, White>>, <<Navy, White>>}, g \in BOOLEAN } :
            n \in 1..ExportMaxModules }

\* The drawing passes of generateQRCode: the background, drawStyledQRCode, and
\* drawCenterIcon when an icon is set.  It reads glowEffect nowhere and
\* addGlowEffect (qrStyler.ts 155-180) has no caller.
RenderPasses(a) ==
    <<"fillRect", "drawStyledQRCode">>
    \o (IF a.centerIcon # NoIcon THEN <<"drawCenterIcon">> ELSE << >>)

GlowInit == call \in GlowCalls /\ result = Pending /\ PopupIdle

ApplyGenerateQRCode ==
    /\ call.fn = "generateQRCode"
    /\ result = Pending
    /\ result' = [passes |-> RenderPasses(call), surface |-> PopupRender(call)]
    /\ UNCHANGED <<call, popupVars, windowVars>>

GlowNext == ApplyGenerateQRCode

SpecGlow == GlowInit /\ [][GlowNext]_vars

Rendered == call.fn = "generateQRCode" /\ Done

\* The number of glow passes a render made.
GlowPasses(passes) == Len(SelectSeq(passes, LAMBDA pass : pass = "addGlowEffect"))

\* C26: the glow pass (addGlowEffect) is applied exactly when glowEffect is true and
\* not at all when it is false, and toggling glowEffect changes the rendered
\* surface.
C26_GlowWhenEnabled ==
    Rendered
    => /\ GlowPasses(result.passes) = (IF call.glowEffect THEN 1 ELSE 0)
       /\ result.surface # PopupRender([call EXCEPT !.glowEffect = ~call.glowEffect])

\* C27: in the sidebar no setting change is lost, also when a field is changed
\* while an uploaded file is being converted to base64: the upload's write of
\* centerIcon leaves every other field, in memory and in the record it writes, at
\* the last value chosen for it.
C27_NoSettingChangeLost ==
    [][\A r \in FileReads :
          FileReadResolve(r)
          => \A k \in DOMAIN qrOptions \ {"centerIcon"} :
                /\ qrOptions'[k] = qrOptions[k]
                /\ writes'[Len(writes')].settings[k] = qrOptions[k]]_vars

(***************************************************************************)
(* The sidebar with a storage that never fails: every chrome.storage call  *)
(* and every file read completes without lastError.                        *)
(***************************************************************************)
SidebarNextStorageOk ==
    \/ SidebarLoadResolve
    \/ \E c \in SidebarChoices : SidebarUpdateSetting(c[1], c[2])
    \/ \E file \in UploadFiles : HandleIconUpload(file)
    \/ \E r \in FileReads : FileReadResolve(r)
    \/ ResetAllSettings
    \/ SidebarSaveResolve
    \/ ResetReadResolve

SpecSidebarStorageOk == SidebarInit /\ [][SidebarNextStorageOk]_vars

\* No read, write or file conversion is in flight.
SidebarQuiet == writes = << >> /\ loading = {}

\* C29: in the sidebar, whenever no storage operation is in flight and none has
\* failed, the settings in memory equal the stored record, also when a field was
\* changed while a reset (resetQRSettings, then getQRSettings) was in progress.
C29_MemoryEqualsStorage ==
    SidebarQuiet => qrOptions = GetQRSettings(storage)

(***************************************************************************)
(* The built-in matrix generator (utils/qrcode.ts).  A matrix is a         *)
(* function from <<row, col>> to BOOLEAN; a text is the sequence of its    *)
(* characters.                                                             *)
(***************************************************************************)
MaxTextLen == 4

\* The characters of the texts encoded, and text.charCodeAt(i) of each.
TextChars == {"A", "@", "~"}
CharCodeAt(c) == CASE c = "A" -> 65 [] c = "@" -> 64 [] c = "~" -> 126

RECURSIVE TextsUpTo(_)
TextsUpTo(n) ==
    IF n = 0 THEN { << >> }
    ELSE TextsUpTo(n - 1)
         \cup { Append(t, c) : t \in { u \in TextsUpTo(n - 1) : Len(u) = n - 1 },
                               c \in TextChars }

\* getVersionForLength (qrcode.ts 56-62)
GetVersionForLength(length) ==
    IF length <= 25 THEN 1
    ELSE IF length <= 47 THEN 2
    ELSE IF length <= 77 THEN 3
    ELSE IF length <= 114 THEN 4
    ELSE 5

\* Array(size).fill(null).map(() => Array(size).fill(false)) (qrcode.ts 37-39)
EmptyMatrix(size) == [p \in (0..(size - 1)) \X (0..(size - 1)) |-> FALSE]
MatrixSize(matrix) == CHOOSE n \in 0..200 : DOMAIN matrix = (0..(n - 1)) \X (0..(n - 1))

\* encodeData (qrcode.ts 64-71)
EncodeData(text) == [n \in 1..Len(text) |-> CharCodeAt(text[n])]

\* The 7x7 pattern (qrcode.ts 75-83), rows and columns from 0.
Pattern(i, j) ==
    \/ i \in {0, 6} \/ j \in {0, 6}
    \/ (i \in 2..4 /\ j \in 2..4)

\* The cells of the three finder patterns (qrcode.ts 85-104).
FinderCells(size) ==
    { <<i, j>> : i \in 0..6, j \in 0..6 }
    \cup { <<i, size - 7 + j>> : i \in 0..6, j \in 0..6 }
    \cup { <<size - 7 + i, j>> : i \in 0..6, j \in 0..6 }

\* addFinderPatterns (qrcode.ts 73-105)
AddFinderPatterns(matrix) ==
    LET size == MatrixSize(matrix)
    IN  [p \in DOMAIN matrix |->
            IF p[1] <= 6 /\ p[2] <= 6 THEN Pattern(p[1], p[2])
            ELSE IF p[1] <= 6 /\ p[2] >= size - 7 THEN Pattern(p[1], p[2] - (size - 7))
            ELSE IF p[1] >= size - 7 /\ p[2] <= 6 THEN Pattern(p[1] - (size - 7), p[2])
            ELSE matrix[p]]

\* The cells of the timing patterns (qrcode.ts 109-112).
TimingCells(size) ==
    { <<6, i>> : i \in 8..(size - 9) } \cup { <<i, 6>> : i \in 8..(size - 9) }

\* addTimingPatterns (qrcode.ts 107-113)
AddTimingPatterns(matrix) ==
    LET size == MatrixSize(matrix)
    IN  [p \in DOMAIN matrix |->
            IF p \in TimingCells(size)
            THEN (IF p[1] = 6 THEN p[2] ELSE p[1]) % 2 = 0
            ELSE matrix[p]]

\* The values of i the outer loop of addData runs its body with (qrcode.ts
\* 120-121): from size - 1 down in steps of 2, 6 replaced by 5.
RECURSIVE ColumnPairs(_)
ColumnPairs(i) ==
    IF i < 0 THEN << >>
    ELSE LET skipped == IF i = 6 THEN i - 1 ELSE i
         IN  <<skipped>> \o ColumnPairs(skipped - 2)

\* The <<row, col>> the two inner loops visit for one i (qrcode.ts 123-126).
PairCells(size, i) ==
    [n \in 1..(2 * size) |->
        LET j == (n - 1) \div 2
            k == (n - 1) % 2
        IN  << IF i % 4 < 2 THEN size - 1 - j ELSE j, i - k >>]

\* ((data[byteIndex] >> bitIndex) & 1) === 1 (qrcode.ts 130-133)
DataBit(bytes, dataIndex) ==
    LET byteIndex == dataIndex \div 8
        bitIndex == 7 - (dataIndex % 8)
    IN  (bytes[byteIndex + 1] \div (2 ^ bitIndex)) % 2 = 1

\* The body of the innermost loop of addData (qrcode.ts 128-136) at one cell.
PlaceBit(st, cell, size, bytes) ==
    IF /\ cell[2] >= 0 /\ cell[1] >= 0 /\ cell[2] < size /\ cell[1] < size
       /\ ~st.matrix[cell]
       /\ st.dataIndex < Len(bytes) * 8
    THEN [matrix |-> [st.matrix EXCEPT ![cell] = DataBit(bytes, st.dataIndex)],
          dataIndex |-> st.dataIndex + 1]
    ELSE st

\* The two inner loops of addData for one i (qrcode.ts 123-138), from cell n on.
RECURSIVE PlacePair(_, _, _, _, _)
PlacePair(st, cells, n, size, bytes) ==
    IF n > Len(cells) THEN st
    ELSE LET placed == PlaceBit(st, cells[n], size, bytes)
         IN  IF placed.dataIndex >= 0
             THEN PlacePair(placed, cells, n + 1, size, bytes)
             ELSE placed

\* The outer loop of addData (qrcode.ts 120-139) over the values of i left.
RECURSIVE PlaceFrom(_, _, _, _)
PlaceFrom(st, pairs, size, bytes) ==
    IF pairs = << >> THEN st
    ELSE LET placed == PlacePair(st, PairCells(size, Head(pairs)), 1, size, bytes)
         IN  IF placed.dataIndex >= 0
             THEN PlaceFrom(placed, Tail(pairs), size, bytes)
             ELSE placed

\* addData (qrcode.ts 115-140)
AddData(matrix, bytes) ==
    LET size == MatrixSize(matrix)
    IN  PlaceFrom([matrix |-> matrix, dataIndex |-> 0],
                  ColumnPairs(size - 1), size, bytes).matrix

\* createQRCode (qrcode.ts 27-54): the matrix before addData and the one returned.
CreateQRCode(text) ==
    LET version == GetVersionForLength(Len(text))
        size == version * 4 + 17
        patterns == AddTimingPatterns(AddFinderPatterns(EmptyMatrix(size)))
    IN  [size |-> size, patterns |-> patterns,
         matrix |-> AddData(patterns, EncodeData(text))]

MatrixCalls == { [fn |-> "createQRCode", text |-> t] : t \in TextsUpTo(MaxTextLen) }

MatrixInit == call \in MatrixCalls /\ result = Pending /\ PopupIdle

ApplyCreateQRCode ==
    /\ call.fn = "createQRCode"
    /\ result = Pending
    /\ result' = CreateQRCode(call.text)
    /\ UNCHANGED <<call, popupVars, windowVars>>

MatrixNext == ApplyCreateQRCode

SpecMatrix == MatrixInit /\ [][MatrixNext]_vars

MatrixMade == call.fn = "createQRCode" /\ Done

\* C30: in the built-in generator data placement never changes a function-pattern
\* cell: after addData the cells of the three 7x7 finder patterns and the timing
\* cells of row 6 and column 6 have the values the patterns gave them.
C30_FunctionPatternsKept ==
    MatrixMade
    => \A p \in FinderCells(result.size) \cup TimingCells(result.size) :
          result.matrix[p] = result.patterns[p]
=============================================================================
